---- MODULE Spec2Model ----
(***************************************************************************)
(* The odc-gee indexing engine: the paginated catalog walk of the three    *)
(* indexer loops (odc_gee/indexing.py indexer, indexing/utils.py           *)
(* ee_indexer, odc_gee/indexing/utils.py gee_indexer), the band            *)
(* completeness filter, the document builders and the add_dataset upsert.  *)
(*                                                                         *)
(* Conventions.                                                            *)
(*  - Python's None is the string "None"; an exception is named by its     *)
(*    class ("KeyError", "UnboundLocalError", ...), "none" when nothing    *)
(*    was raised.                                                          *)
(*  - A raw band of an image is represented by its id (band['id']); the    *)
(*    grid of a band is not modelled here.                                 *)
(*  - uuid.uuid5(NAMESPACE_URL, key) is a SHA-1 based name hash; it is     *)
(*    kept as the symbolic term <<"uuid5", key>>: equal keys give equal    *)
(*    ids and distinct keys give distinct ids (no hash collision among     *)
(*    the handful of keys of a run).  The key string itself is built as    *)
(*    the code builds it, by string concatenation.                         *)
(*  - The catalog service and the dataset index are the environment:       *)
(*    what they answer is a nondeterministic choice among the answers      *)
(*    their interface allows.                                              *)
(***************************************************************************)
EXTENDS Integers, Sequences, FiniteSets, TLC

\* ------------------------------------------------------------------ bounds
\* Pages of one catalog listing.
MaxPages == 2
\* Images of one catalog listing, over all its pages.
MaxImages == 2

VARIABLES
    variant,    \* which indexer loop runs: "indexer", "ee_indexer", "gee_indexer"
    productArg, \* the product name argument of the indexer, "None" for None
    update,     \* the update keyword argument of the indexer
    catalog,    \* the listing the catalog service serves: a sequence of pages
    index,      \* the dataset index: a set of documents, one per id
    run,        \* 1: first call of the indexer, 2: second call with the same arguments
    pc,         \* "start" (before the product test), "loop" (at the while test), "page" (inside the for loop), "returned", "raised"
    resp,       \* response: 0 is None, p > 0 is the decoded JSON of page p
    cursor,     \* position of the for loop in response['images']
    filters,    \* the caller's filter map (a function from keys to values)
    image_sum,  \* the running count the indexer returns
    requests,   \* history: the keyword arguments of every list_images call of this run
    seen,       \* history: the images the for loop visited in this run
    calls,      \* history: one record per add_dataset call of this run
    raised,     \* the exception that left the indexer, "none" if none
    swallowed,  \* the exception the loop's own except clause printed, "none" if none
    first,      \* what the first run left: [pc, raised, swallowed, index, image_sum, ...]
    \* Datacube.get_images (odc_gee/earthengine.py), a generator
    parameters, \* the keys of the parameters dict of the call
    gpc,        \* "request", "yield", "fallback", "done" (StopIteration), "raised"
    request,    \* the pending listImages request: the page it asks for, 0 is None
    gresp,      \* the page of the last response, 0 before the first
    gcursor,    \* position in response.get('images', [])
    executed,   \* history: the pages asked for by the executed listing requests
    yielded,    \* history: what the generator yielded, in order
    graised,    \* the exception that left the generator, "none" if none
    gcaught,    \* the EEException the generator caught, "none" if none
    \* the parsers, as pure functions of their arguments
    pin,        \* the arguments of two parse calls
    pout,       \* their results; pout.done is FALSE before the calls
    \* earthengine.Datacube (odc_gee/earthengine.py): the singleton, its
    \* credential and the EEDA_BEARER entry of os.environ
    instance,   \* Singleton.__instance: 0 is None, n > 0 the n-th object created
    mode,       \* self.credentials: "unset", "service" or "user" credentials
    hasRequest, \* whether self.request is a Request object (None otherwise)
    finalizer,  \* self._finalizer: "none", "alive" or "dead"
    environ,    \* os.environ['EEDA_BEARER']: "absent" or the string it holds
    token,      \* credentials.token is "token-n"; 0 before the first refresh
    expired,    \* whether credentials.token has passed its expiry
    inits,      \* history: how many times Datacube.__init__ has run
    returned,   \* history: the objects the constructor calls returned
    ctorCalls,  \* history: the number of constructor calls
    lpc,        \* Datacube.load: "idle", "try", "returned", "raised"
    attempts,   \* history: requests issued by the current load call
    lresult,    \* what load returned or raised, "none" while it runs
    lastOp      \* history: the last operation on the instance

ixVars == <<variant, productArg, update, catalog, index, run, pc, resp, cursor, filters,
            image_sum, requests, seen, calls, raised, swallowed, first>>
walkVars == <<parameters, gpc, request, gresp, gcursor, executed, yielded,
              graised, gcaught>>
parseVars == <<pin, pout>>
credVars == <<instance, mode, hasRequest, finalizer, environ, token, expired,
              inits, returned, ctorCalls, lpc, attempts, lresult, lastOp>>
vars == <<ixVars, walkVars, parseVars, credVars>>

Variants == {"indexer", "ee_indexer", "gee_indexer"}

\* ------------------------------------------------------------ the product
\* The registered product the run indexes, with its measurements in index
\* order and the first alias of each (the raw band id it is declared for).
ProductName == "ls8_test"
\* datacube.list_products().name: the names registered in the index.
Products == {ProductName}
\* The product argument of a run: None, a registered name, another name.
ProductArgs == {"None", ProductName, "ls8_unknown"}
Measurements == <<"blue", "green">>
Aliases0 == <<"B2", "B3">>
\* The band table of the parser module (raw id, semantic name), cut to the
\* rows of the product's bands.
BANDS == << <<"B2", "blue">>, <<"B3", "green">> >>

\* The band lists an image may carry: one for each way a list relates to
\* the required bands (exact, strict superset, strict subset, strict subset
\* with a repeated id).
BandCases == { <<"B2", "B3">>, <<"B1", "B2", "B3">>, <<"B2">>, <<"B3", "B3">> }

Range(s) == {s[i] : i \in DOMAIN s}

\* ------------------------------------------------------------ the catalog
\* The number of images of a page; -1 stands for a page without records,
\* whose JSON has no 'images' entry (the service leaves an empty list out).
PageShapes == {-1} \cup (1 .. MaxImages)

Count(n) == IF n < 0 THEN 0 ELSE n

RECURSIVE Before(_, _)
\* The number of images on the pages before page p of a listing of shape sh.
Before(sh, p) == IF p <= 1 THEN 0 ELSE Before(sh, p - 1) + Count(sh[p - 1])

Total(sh) == Before(sh, Len(sh) + 1)

Shapes == {sh \in UNION {[1 .. n -> PageShapes] : n \in 1 .. MaxPages} :
              Total(sh) <= MaxImages}

\* image["name"] of the k-th image of the listing.
ImageName(k) == "scene-" \o ToString(k)

\* The listing of shape sh whose k-th image carries the band list b[k].  A
\* page is [hasImages, images]; page p carries a nextPageToken exactly when
\* a page follows it, and the token is the number of that page.
MakeCatalog(sh, b) ==
    [p \in 1 .. Len(sh) |->
        [hasImages |-> sh[p] >= 0,
         images    |-> [i \in 1 .. Count(sh[p]) |->
                           [name  |-> ImageName(Before(sh, p) + i),
                            bands |-> b[Before(sh, p) + i]]]]]

Catalogs == UNION {{MakeCatalog(sh, b) : b \in [1 .. Total(sh) -> BandCases]} :
                      sh \in Shapes}

\* 'nextPageToken' in response.keys()
HasToken(cat, p) == p >= 1 /\ p < Len(cat)
NextPageToken(cat, p) == p + 1
\* len(response): the number of top-level keys of the decoded page.
ResponseLen(cat, p) ==
    (IF cat[p].hasImages THEN 1 ELSE 0) + (IF HasToken(cat, p) THEN 1 ELSE 0)

\* The page a list_images call with keyword arguments kw is answered with.
PageServed(kw) == IF "pageToken" \in DOMAIN kw THEN kw["pageToken"] ELSE 1

\* dict.update(pageToken=t) and dict.pop('pageToken') on the filter map.
DictUpdate(d, k, v) == [x \in DOMAIN d \cup {k} |-> IF x = k THEN v ELSE d[x]]
DictPop(d, k) == [x \in DOMAIN d \ {k} |-> d[x]]

\* ------------------------------------------------- band completeness test
\* required_bands of the loop: the first alias of every measurement of the
\* product (indexer), column 0 of the parser's band table (ee_indexer,
\* gee_indexer).
RequiredBands(v) ==
    IF v = "indexer" THEN Aliases0 ELSE [i \in DOMAIN BANDS |-> BANDS[i][1]]

\* len(list(filter(lambda x: x in required_bands, bands))): the number of
\* positions of the band list whose id is a required one.
BandLength(bands, required) ==
    Cardinality({i \in DOMAIN bands : bands[i] \in Range(required)})

\* band_length == len(required_bands)
Eligible(bands, required) == BandLength(bands, required) = Len(required)

\* ------------------------------------------------------ document builders
uuid5(key) == <<"uuid5", key>>

\* A faulty parse that leaves the product name out of the hashed key.
ParseIdNoProduct(product, name) == uuid5("EEDAI:" \o name)

\* odc_gee/parser.py: the key always holds the product name.
ParseId(product, name) == uuid5(("EEDAI:" \o product) \o ("/" \o name))

\* The parser modules (ls8, s1, s2, ...): the product is left out of the key
\* when it is falsy (None or the empty string).
ParserId(product, name) ==
    IF product # "None" /\ product # ""
    THEN uuid5(("EEDAI:" \o product) \o ("/" \o name))
    ELSE uuid5("EEDAI:" \o name)

MinOf(a, b) == IF a <= b THEN a ELSE b

\* tuple(zip(product.measurements, image_data['bands'])): the i-th
\* measurement name paired with the i-th band of the image.
ZipBands(measurements, bands) ==
    [i \in 1 .. MinOf(Len(measurements), Len(bands)) |-> <<measurements[i], bands[i]>>]

\* 'EEDAI:' + metadata.path + ':' + band
BandPath(path, band) == ("EEDAI:" \o path) \o (":" \o band)

\* A dict comprehension over (key, band) pairs: a later pair with the same
\* key replaces an earlier one.
BandDict(path, pairs) ==
    [n \in {pairs[i][1] : i \in DOMAIN pairs} |->
        LET last == CHOOSE i \in DOMAIN pairs :
                        /\ pairs[i][1] = n
                        /\ \A j \in DOMAIN pairs : pairs[j][1] = n => j <= i
        IN  [path |-> BandPath(path, pairs[last][2]), layer |-> 1]]

\* odc_gee/indexing.py make_metadata_doc over odc_gee/parser.py parse.
make_metadata_doc(image, product, measurements) ==
    [id    |-> ParseId(product, image.name),
     bands |-> BandDict(image.name, ZipBands(measurements, image.bands))]

\* MakeMetadataDoc.__call__ over a parser module: metadata.bands is the
\* module's whole band table, (raw id, name) rows keyed by the name.
MakeMetadataDoc(image, product) ==
    [id    |-> ParserId(product, image.name),
     bands |-> BandDict(image.name,
                        [i \in DOMAIN BANDS |-> <<BANDS[i][2], BANDS[i][1]>>])]

\* The document the loop of variant v builds for an image.
BuildDoc(v, image) ==
    IF v = "indexer" THEN make_metadata_doc(image, ProductName, Measurements)
    ELSE MakeMetadataDoc(image, ProductName)

\* ---------------------------------------------------------- add_dataset
\* index.datasets.get(id): the documents stored under the id.
Get(idx, id) == {d \in idx : d.id = id}

\* What index.datasets.add may do with a dataset whose id is already
\* stored: log it and return, or raise (a RuntimeError, or another
\* Exception such as a duplicate-record error).
DupOutcomes == {"absorb", "RuntimeError", "DuplicateRecordError"}

\* A faulty dispatch that updates whenever the flag is set, stored or not.
TakesUpdateUnchecked(upd, exists) == upd

\* if update and index.datasets.get(dataset.id)
TakesUpdate(upd, exists) == upd /\ exists

\* The index calls made before the write: get is evaluated only when update
\* is truthy (short-circuit and).
Lookup(upd) == IF upd THEN <<"get">> ELSE <<>>

\* A faulty add_dataset that drops the resolver's error.
OnResolveErrorDropped(idx, e) ==
    [index |-> idx, ops |-> <<>>, err |-> "None", exc |-> "none"]

\* The result of add_dataset when the resolver returned an error: no index
\* call, the error handed back.
OnResolveError(idx, e) ==
    [index |-> idx, ops |-> <<>>, err |-> e, exc |-> "none"]

\* The result of add_dataset when index.datasets.add raised e.
\*  indexer, gee_indexer: "except Exception as err" catches it; Python
\*    unbinds err when the clause ends, so "return dataset, err" raises
\*    UnboundLocalError.
\*  ee_indexer: "except RuntimeError as _e" keeps a RuntimeError in err and
\*    returns; any other exception propagates.
OnAddRaises(v, idx, ops, e) ==
    IF v \in {"indexer", "gee_indexer"}
    THEN [index |-> idx, ops |-> ops, err |-> "unbound", exc |-> "UnboundLocalError"]
    ELSE IF e = "RuntimeError"
         THEN [index |-> idx, ops |-> ops, err |-> e, exc |-> "none"]
         ELSE [index |-> idx, ops |-> ops, err |-> "None", exc |-> e]

\* add_dataset(doc, uri, index, update=upd): resolves tells whether the
\* resolver returned a dataset (err None), dup what the index does with an
\* id it already stores.  The result is the index afterwards, the index
\* calls made, the err returned and the exception raised.
add_dataset(v, doc, idx, upd, resolves, dup) ==
    IF ~resolves THEN OnResolveError(idx, "ResolveError")
    ELSE LET exists == Get(idx, doc.id) # {}
         IN  IF TakesUpdate(upd, exists)
             THEN [index |-> (idx \ Get(idx, doc.id)) \cup {doc},
                   ops   |-> Lookup(upd) \o <<"update">>,
                   err   |-> "None", exc |-> "none"]
             ELSE IF ~exists
             THEN [index |-> idx \cup {doc},
                   ops   |-> Lookup(upd) \o <<"add">>,
                   err   |-> "None", exc |-> "none"]
             ELSE IF dup = "absorb"
             THEN [index |-> idx,
                   ops   |-> Lookup(upd) \o <<"add">>,
                   err   |-> "None", exc |-> "none"]
             ELSE OnAddRaises(v, idx, Lookup(upd) \o <<"add">>, dup)

\* -------------------------------------------------------- the indexer loop
\* A dataset indexed by an earlier run under scene-1's id, with other bands.
StaleDoc ==
    [id    |-> ParseId(ProductName, ImageName(1)),
     bands |-> BandDict("stale", << <<"blue", "B9">> >>)]

\* What the exceptions a listing request may raise are: the loops of
\* ee_indexer and gee_indexer catch RuntimeError and nothing else.
TransportErrors == {"RuntimeError", "ConnectionError"}

\* The generator and the parsers at rest: the indexer loops call neither
\* get_images nor the stand-alone parse specification.
WalkIdle ==
    /\ parameters = {}
    /\ gpc = "idle"
    /\ request = 0
    /\ gresp = 0
    /\ gcursor = 0
    /\ executed = <<>>
    /\ yielded = <<>>
    /\ graised = "none"
    /\ gcaught = "none"

ParseIdle == pin = [parser |-> "none"] /\ pout = [done |-> FALSE]

\* No earthengine.Datacube has been constructed: the indexer loops use the
\* plain datacube.Datacube.
CredIdle ==
    /\ instance = 0
    /\ mode = "unset"
    /\ hasRequest = FALSE
    /\ finalizer = "none"
    /\ environ = "absent"
    /\ token = 0
    /\ expired = FALSE
    /\ inits = 0
    /\ returned = {}
    /\ ctorCalls = 0
    /\ lpc = "idle"
    /\ attempts = 0
    /\ lresult = "none"
    /\ lastOp = "none"

NoRun == [pc |-> "none", raised |-> "none", swallowed |-> "none",
          index |-> {}, image_sum |-> 0, resolveErrors |-> 0]

Init ==
    /\ variant \in Variants
    /\ productArg \in ProductArgs
    /\ update \in BOOLEAN
    /\ catalog \in Catalogs
    /\ index \in {{}, {StaleDoc}}
    /\ run = 1
    /\ pc = "start"
    /\ resp = 0
    /\ cursor = 0
    /\ filters = [k \in {"startTime"} |-> "2020-01-01T00:00:00Z"]
    /\ image_sum = 0
    /\ requests = <<>>
    /\ seen = <<>>
    /\ calls = <<>>
    /\ raised = "none"
    /\ swallowed = "none"
    /\ first = NoRun
    /\ WalkIdle
    /\ ParseIdle
    /\ CredIdle

\* while(response is None or 'nextPageToken' in response.keys())
LoopTest == resp = 0 \/ HasToken(catalog, resp)

\* if response and 'nextPageToken' in response.keys()
WithToken == resp # 0 /\ HasToken(catalog, resp)

\* The keyword arguments of the next list_images call: the filter map,
\* after filters.update(pageToken=...) when the last response had a token.
RequestArgs ==
    IF WithToken
    THEN DictUpdate(filters, "pageToken", NextPageToken(catalog, resp))
    ELSE filters

\* What the parser or the document builder may raise on one record: a
\* TypeError for a geometry that is null or not a ring of points, pyproj's
\* CRSError for a CRS code it cannot resolve.  CRSError derives from
\* RuntimeError.
ParseErrors == {"TypeError", "CRSError"}
IsRuntimeError(e) == e \in {"RuntimeError", "CRSError"}

\* Whether an exception raised inside the loop leaves the indexer: indexer
\* has no try block; ee_indexer and gee_indexer wrap the loop in
\* "except RuntimeError", print the error and return.
Propagates(v, e) == v = "indexer" \/ ~IsRuntimeError(e)

\* A faulty test that only rejects an absent product name.
MissingProductNoneOnly(p) == p = "None"

\* index_params.product is None
\*   or not datacube.list_products().name.isin([index_params.product]).any()
MissingProduct(p) == p = "None" \/ p \notin Products

\* The statements before the loop: the product test raises
\* ValueError("Missing product."), outside every try block.
CheckProduct ==
    /\ pc = "start"
    /\ IF MissingProduct(productArg)
       THEN pc' = "raised" /\ raised' = "ValueError"
       ELSE pc' = "loop" /\ raised' = raised
    /\ UNCHANGED <<variant, productArg, update, catalog, index, run, resp, cursor,
                   filters, image_sum, requests, seen, calls, swallowed, first>>
    /\ UNCHANGED <<walkVars, parseVars, credVars>>

\* One listing request that is answered: the page is decoded, pageToken is
\* popped again, and the for loop is entered unless the page is empty.  A
\* page with a token and no 'images' entry raises KeyError at
\* response['images'].
Fetch ==
    /\ pc = "loop"
    /\ LoopTest
    /\ LET kw == RequestArgs
           p  == PageServed(kw)
       IN  /\ requests' = Append(requests, kw)
           /\ resp' = p
           /\ filters' = IF WithToken THEN DictPop(kw, "pageToken") ELSE filters
           /\ IF ResponseLen(catalog, p) = 0
              THEN pc' = "loop" /\ cursor' = 0 /\ raised' = raised
              ELSE IF ~catalog[p].hasImages
              THEN pc' = "raised" /\ cursor' = 0 /\ raised' = "KeyError"
              ELSE pc' = "page" /\ cursor' = 1 /\ raised' = raised
    /\ UNCHANGED <<variant, productArg, update, catalog, index, run, image_sum, seen, calls,
                   swallowed, first>>
    /\ UNCHANGED <<walkVars, parseVars, credVars>>

\* One listing request that raises e: the statement after the call (the
\* pop of pageToken) is not reached.
FetchFails ==
    /\ pc = "loop"
    /\ LoopTest
    /\ \E e \in TransportErrors :
          /\ requests' = Append(requests, RequestArgs)
          /\ filters' = RequestArgs
          /\ IF Propagates(variant, e)
             THEN pc' = "raised" /\ raised' = e /\ swallowed' = swallowed
             ELSE pc' = "returned" /\ raised' = raised /\ swallowed' = e
    /\ UNCHANGED <<variant, productArg, update, catalog, index, run, resp, cursor, image_sum,
                   seen, calls, first>>
    /\ UNCHANGED <<walkVars, parseVars, credVars>>

\* One iteration of "for image in response['images']": the band test and,
\* for an image that passes it, the document and the add_dataset call.
ProcessImage ==
    /\ pc = "page"
    /\ cursor <= Len(catalog[resp].images)
    /\ LET image == catalog[resp].images[cursor]
       IN  /\ seen' = Append(seen, image)
           /\ IF Eligible(image.bands, RequiredBands(variant))
              THEN \/ \E e \in ParseErrors :
                         \* make_metadata_doc / parser(image, ...) raises e
                         /\ IF Propagates(variant, e)
                            THEN pc' = "raised" /\ raised' = e
                                 /\ swallowed' = swallowed
                            ELSE pc' = "returned" /\ raised' = raised
                                 /\ swallowed' = e
                         /\ UNCHANGED <<index, calls, cursor>>
                   \/ \E resolves \in BOOLEAN, dup \in DupOutcomes :
                      LET doc == BuildDoc(variant, image)
                          r   == add_dataset(variant, doc, index, update, resolves, dup)
                      IN  /\ index' = r.index
                          /\ calls' = Append(calls,
                                 [name |-> image.name, bands |-> image.bands,
                                  doc |-> doc,
                                  resolves |-> resolves,
                                  existed |-> Get(index, doc.id) # {},
                                  before |-> index, after |-> r.index,
                                  ops |-> r.ops, err |-> r.err, exc |-> r.exc])
                          /\ IF r.exc = "none"
                             THEN pc' = pc /\ cursor' = cursor + 1 /\ raised' = raised
                             ELSE pc' = "raised" /\ cursor' = cursor /\ raised' = r.exc
                          /\ swallowed' = swallowed
              ELSE /\ cursor' = cursor + 1
                   /\ UNCHANGED <<index, calls, pc, raised, swallowed>>
    /\ UNCHANGED <<variant, productArg, update, catalog, run, resp, filters, image_sum,
                   requests, first>>
    /\ UNCHANGED <<walkVars, parseVars, credVars>>

\* After the for loop: image_sum = image_sum + len(response['images']).
EndPage ==
    /\ pc = "page"
    /\ cursor > Len(catalog[resp].images)
    /\ image_sum' = image_sum + Len(catalog[resp].images)
    /\ pc' = "loop"
    /\ UNCHANGED <<variant, productArg, update, catalog, index, run, resp, cursor, filters,
                   requests, seen, calls, raised, swallowed, first>>
    /\ UNCHANGED <<walkVars, parseVars, credVars>>

\* The while test fails: return response, image_sum.
Return ==
    /\ pc = "loop"
    /\ ~LoopTest
    /\ pc' = "returned"
    /\ UNCHANGED <<variant, productArg, update, catalog, index, run, resp, cursor, filters,
                   image_sum, requests, seen, calls, raised, swallowed, first>>
    /\ UNCHANGED <<walkVars, parseVars, credVars>>

ResolveErrors(cs) == Cardinality({i \in DOMAIN cs : ~cs[i].resolves})

\* After the indexer has returned, the caller runs it a second time with
\* the same arguments (the same asset, product, update flag and filter map
\* object); response and image_sum take their defaults again.
SecondRun ==
    /\ run = 1
    /\ pc = "returned"
    /\ run' = 2
    /\ first' = [pc |-> pc, raised |-> raised, swallowed |-> swallowed,
                 index |-> index, image_sum |-> image_sum,
                 resolveErrors |-> ResolveErrors(calls)]
    /\ pc' = "start"
    /\ resp' = 0
    /\ cursor' = 0
    /\ image_sum' = 0
    /\ requests' = <<>>
    /\ seen' = <<>>
    /\ calls' = <<>>
    /\ raised' = "none"
    /\ swallowed' = "none"
    /\ UNCHANGED <<variant, productArg, update, catalog, index, filters>>
    /\ UNCHANGED <<walkVars, parseVars, credVars>>

Next == CheckProduct \/ Fetch \/ FetchFails \/ ProcessImage \/ EndPage \/ Return \/ SecondRun

Spec == Init /\ [][Next]_vars

\* ===================================================== claims: the indexer
\* The band set the product requires of a record.
RequiredSet == Range(RequiredBands(variant))

\* The run is for a registered product and met no record the parser or the
\* document builder raised on.
Healthy ==
    /\ productArg \in Products
    /\ raised \notin ParseErrors
    /\ swallowed \notin ParseErrors

\* This run met no condition outside the claims about a healthy catalog: no
\* listing request raised, and the resolver rejected no document.
Undisturbed ==
    /\ Healthy
    /\ raised \notin TransportErrors
    /\ swallowed = "none"
    /\ ResolveErrors(calls) = 0

Finished == pc \in {"returned", "raised"}

\* C1: with update=False, a second run over the same asset, filter and
\* product ends normally and leaves the index exactly as the first run left
\* it: the datasets that already exist are absorbed, not fatal.
C1_SecondRunAbsorbs ==
    (/\ run = 2 /\ ~update /\ Finished /\ Undisturbed
     /\ first.pc = "returned" /\ first.swallowed = "none" /\ first.resolveErrors = 0)
    => (pc = "returned" /\ index = first.index)

\* C2: add_dataset is never called for an image whose band ids (repeats
\* allowed) cover only a strict subset of the required band set.
C2_SubsetNeverAdded ==
    \A i \in DOMAIN calls :
        ~(Range(calls[i].bands) \subseteq RequiredSet
          /\ Range(calls[i].bands) # RequiredSet)

\* C3: an image whose band ids are a strict superset of the required bands
\* is upserted by indexer, and its document's image.bands has exactly the
\* product's band names as keys, each with the path of the raw band id
\* declared for that name.
C3_SupersetMapsDeclaredBands ==
    (variant = "indexer" /\ Healthy) =>
        /\ \A j \in DOMAIN seen :
              (RequiredSet \subseteq Range(seen[j].bands)
                 /\ Range(seen[j].bands) # RequiredSet)
              => \E i \in DOMAIN calls : calls[i].name = seen[j].name
        /\ \A i \in DOMAIN calls :
              (RequiredSet \subseteq Range(calls[i].bands)
                 /\ Range(calls[i].bands) # RequiredSet)
              => /\ DOMAIN calls[i].doc.bands = Range(Measurements)
                 /\ \A k \in DOMAIN Measurements :
                       calls[i].doc.bands[Measurements[k]].path
                           = BandPath(calls[i].name, Aliases0[k])

\* C4: the count the indexer returns is the number of eligible records it
\* saw (records whose bands cover the whole required band set).
C4_CountsEligible ==
    (pc = "returned" /\ swallowed = "none")
    => image_sum = Cardinality({j \in DOMAIN seen :
                                   RequiredSet \subseteq Range(seen[j].bands)})

RECURSIVE ImagesUpTo(_, _)
\* The records of pages 1 .. p of a listing, in page order.
ImagesUpTo(cat, p) ==
    IF p = 0 THEN <<>> ELSE ImagesUpTo(cat, p - 1) \o cat[p].images

\* C5: a walk over a catalog of N chained pages that meets no transport
\* error requests every page once, in chain order, visits exactly the
\* records of all pages in page order, and ends after the page without a
\* token.
C5_WalkExhaustsCatalog ==
    (/\ run = 1 /\ Finished /\ Healthy
     /\ raised \notin TransportErrors /\ swallowed = "none")
    => /\ pc = "returned"
       /\ Len(requests) = Len(catalog)
       /\ \A i \in DOMAIN requests : PageServed(requests[i]) = i
       /\ seen = ImagesUpTo(catalog, Len(catalog))

IsWrite(op) == op \in {"add", "update"}

\* C8: for every resolved document add_dataset attempts exactly one index
\* write; it is an update exactly when the update flag is set and the id is
\* already stored, and an add otherwise, which inserts a dataset whose id
\* the index does not hold.
C8_UpsertDispatch ==
    \A i \in DOMAIN calls :
        calls[i].resolves =>
            LET writes == SelectSeq(calls[i].ops, IsWrite)
            IN  /\ Len(writes) = 1
                /\ (writes[1] = "update") <=> (update /\ calls[i].existed)
                /\ (writes[1] = "add" /\ ~calls[i].existed)
                       => calls[i].after = calls[i].before \cup {calls[i].doc}
                /\ writes[1] = "update"
                       => /\ calls[i].doc \in calls[i].after
                          /\ Cardinality(Get(calls[i].after, calls[i].doc.id)) = 1

\* C8 witness: both branches were taken in one run under the update flag:
\* an update of a stored id and an add of a new one.
C8_Witness ==
    /\ update
    /\ \E i \in DOMAIN calls : calls[i].ops = <<"get", "update">>
    /\ \E i \in DOMAIN calls : calls[i].ops = <<"get", "add">> /\ ~calls[i].existed

\* C9: whatever index.datasets.add raises for a dataset that already
\* exists, add_dataset does not raise: it returns, and the loop goes on.
C9_DuplicateIsBenign ==
    \A i \in DOMAIN calls :
        (calls[i].resolves /\ calls[i].existed) => calls[i].exc = "none"

\* C10: when the resolver returns an error, add_dataset hands that error
\* back, makes no index call and leaves the index as it was.
C10_ResolveErrorSurfaced ==
    \A i \in DOMAIN calls :
        ~calls[i].resolves =>
            /\ calls[i].err = "ResolveError"
            /\ calls[i].exc = "none"
            /\ calls[i].ops = <<>>
            /\ calls[i].after = calls[i].before

\* C10 witness: a resolution failed on an index that already stored the id.
C10_Witness ==
    \E i \in DOMAIN calls : ~calls[i].resolves /\ calls[i].existed

\* C13: an error the parser or the document builder raises on one eligible
\* record never ends the run: no run is left through such an error, and no
\* run returns early because its loop caught one.
C13_SceneErrorSkipped ==
    /\ raised \notin ParseErrors
    /\ swallowed \notin ParseErrors

\* C11: a run whose product name is None or is not registered in the index
\* ends in ValueError before any list_images request and before any
\* add_dataset call.
C11_MissingProductFatal ==
    (pc # "start" /\ (productArg = "None" \/ productArg \notin Products))
    => /\ pc = "raised"
       /\ raised = "ValueError"
       /\ requests = <<>>
       /\ seen = <<>>
       /\ calls = <<>>

\* C11 witness: a run for a name the index does not hold has ended.
C11_Witness ==
    /\ productArg = "ls8_unknown"
    /\ pc = "raised"
    /\ raised = "ValueError"
    /\ requests = <<>>

\* The filter map as the caller passed it to the first run.
CallerFilters == [k \in {"startTime"} |-> "2020-01-01T00:00:00Z"]

\* C23: the first request of a run carries the caller's filter map alone,
\* every later request carries it plus exactly the token of the response to
\* the request before it, and once the indexer has returned the filter map
\* is the caller's again, with no pageToken.
C23_TokenRoundTrip ==
    /\ \A i \in DOMAIN requests :
          requests[i] =
              IF i = 1
              THEN CallerFilters
              ELSE DictUpdate(CallerFilters, "pageToken",
                              NextPageToken(catalog, PageServed(requests[i - 1])))
    /\ pc = "returned" => filters = CallerFilters

\* The last listing request of the run carried a pageToken.
LastRequestTokened ==
    requests # <<>> /\ "pageToken" \in DOMAIN requests[Len(requests)]

\* C25: when control has left the indexer, by return or by an exception
\* out of a listing request that carried a token, the caller's filter map
\* holds no pageToken.
C25_FailedWalkLeavesNoToken ==
    (\/ pc = "returned"
     \/ pc = "raised" /\ raised \in TransportErrors /\ LastRequestTokened)
        => "pageToken" \notin DOMAIN filters

\* The last response has a nextPageToken and no 'images' entry.
TokenOnlyPage ==
    resp # 0 /\ HasToken(catalog, resp) /\ ~catalog[resp].hasImages

\* C28: a page with a token and no 'images' does not end the walk: while
\* such a page is the last response, the loop has stopped only if a
\* listing request raised.
C28_TokenOnlyPageContinues ==
    (TokenOnlyPage /\ productArg \in Products) =>
        /\ pc = "raised" => raised \in TransportErrors
        /\ pc = "returned" => swallowed \in TransportErrors

\* ============================================== Datacube.get_images (walker)
\* The indexer loop at rest: get_images is called by Datacube.load, not by
\* the indexer loops.
IndexerIdle ==
    /\ variant = "indexer"
    /\ productArg = ProductName
    /\ update = FALSE
    /\ index = {}
    /\ run = 1
    /\ pc = "idle"
    /\ resp = 0
    /\ cursor = 0
    /\ filters = [k \in {"startTime"} |-> "2020-01-01T00:00:00Z"]
    /\ image_sum = 0
    /\ requests = <<>>
    /\ seen = <<>>
    /\ calls = <<>>
    /\ raised = "none"
    /\ swallowed = "none"
    /\ first = NoRun

\* What _execute_cloud_call may raise: an EEException saying the parent is
\* not an image collection, another EEException, or an exception of the
\* transport.
NotACollection == "EEException: is not an image collection."
ExecuteErrors == {NotACollection, "EEException", "HttpError"}

\* The single asset the fallback request (assets().get) returns.
Asset == [name |-> "asset", bands |-> <<"B2", "B3">>]

\* A faulty loop without the break under "if 'pageSize' in parameters".
LeavesLoopNoBreak(params, req) == req = 0

\* Whether the while loop is left after a page: the break under
\* "if 'pageSize' in parameters", or listImages_next returned None.
LeavesLoop(params, req) == "pageSize" \in params \/ req = 0

\* listImages_next(request, response): the request of the page the
\* response's token names, None when the response has no token.
ListImagesNext(cat, p) == IF HasToken(cat, p) THEN NextPageToken(cat, p) ELSE 0

InitWalk ==
    /\ catalog \in Catalogs
    /\ parameters \in {{"parent"}, {"parent", "pageSize"}}
    /\ gpc = "request"
    /\ request = 1
    /\ gresp = 0
    /\ gcursor = 0
    /\ executed = <<>>
    /\ yielded = <<>>
    /\ graised = "none"
    /\ gcaught = "none"
    /\ IndexerIdle
    /\ ParseIdle
    /\ CredIdle

\* response = _execute_cloud_call(request); request = listImages_next(...)
Execute ==
    /\ gpc = "request"
    /\ request # 0
    /\ executed' = Append(executed, request)
    /\ gresp' = request
    /\ request' = ListImagesNext(catalog, request)
    /\ gcursor' = 1
    /\ gpc' = "yield"
    /\ UNCHANGED <<parameters, yielded, graised, gcaught>>
    /\ UNCHANGED <<ixVars, parseVars, credVars>>

\* The call raises e.  "except self.ee.EEException" goes on to the
\* single-asset request when the message says so and otherwise falls out
\* of the handler, which ends the generator; "except Exception" re-raises.
ExecuteRaises ==
    /\ gpc = "request"
    /\ request # 0
    /\ \E e \in ExecuteErrors :
          /\ executed' = Append(executed, request)
          /\ IF e = NotACollection
             THEN gpc' = "fallback" /\ gcaught' = e /\ graised' = graised
             ELSE IF e = "EEException"
             THEN gpc' = "done" /\ gcaught' = e /\ graised' = graised
             ELSE gpc' = "raised" /\ gcaught' = gcaught /\ graised' = e
    /\ UNCHANGED <<parameters, request, gresp, gcursor, yielded>>
    /\ UNCHANGED <<ixVars, parseVars, credVars>>

\* request = assets().get(name=parameters['parent']); yield response
Fallback ==
    /\ gpc = "fallback"
    /\ yielded' = Append(yielded, Asset)
    /\ gpc' = "done"
    /\ UNCHANGED <<parameters, request, gresp, gcursor, executed, graised, gcaught>>
    /\ UNCHANGED <<ixVars, parseVars, credVars>>

\* for image in response.get('images', []): yield image
Yield ==
    /\ gpc = "yield"
    /\ gcursor <= Len(catalog[gresp].images)
    /\ yielded' = Append(yielded, catalog[gresp].images[gcursor])
    /\ gcursor' = gcursor + 1
    /\ UNCHANGED <<parameters, gpc, request, gresp, executed, graised, gcaught>>
    /\ UNCHANGED <<ixVars, parseVars, credVars>>

\* The for loop is exhausted: break, or test "while request is not None".
EndYield ==
    /\ gpc = "yield"
    /\ gcursor > Len(catalog[gresp].images)
    /\ gpc' = IF LeavesLoop(parameters, request) THEN "done" ELSE "request"
    /\ UNCHANGED <<parameters, request, gresp, gcursor, executed, yielded,
                   graised, gcaught>>
    /\ UNCHANGED <<ixVars, parseVars, credVars>>

NextWalk == Execute \/ ExecuteRaises \/ Fallback \/ Yield \/ EndYield

SpecWalk == InitWalk /\ [][NextWalk]_vars

\* C12: an error raised by a listing request leaves the generator as that
\* error: a walk never ends normally after a request failed, except through
\* the single-asset request that answers "is not an image collection".
C12_TransportErrorSurfaces ==
    /\ gpc = "done" => gcaught \in {"none", NotACollection}
    /\ graised # "none" => (gpc = "raised" /\ graised \in ExecuteErrors)
    /\ Len(executed) <= Len(catalog)

\* C6: a walk whose parameters hold pageSize executes exactly one listing
\* request and yields only the records of that page, whether or not the
\* response carries a continuation token.
C6_PageSizeOnePage ==
    "pageSize" \in parameters =>
        /\ Len(executed) <= 1
        /\ gpc \in {"yield", "done", "fallback", "raised"} => executed = <<1>>
        /\ gcaught = "none" =>
              /\ Len(yielded) <= Len(catalog[1].images)
              /\ yielded = SubSeq(catalog[1].images, 1, Len(yielded))
        /\ (gpc = "done" /\ gcaught = "none") => yielded = catalog[1].images

\* C6 witness: a pageSize walk ended after a first page that had records
\* and a continuation token.
C6_Witness ==
    /\ "pageSize" \in parameters
    /\ gpc = "done"
    /\ gcaught = "none"
    /\ HasToken(catalog, 1)
    /\ Len(yielded) >= 1
    /\ request = 2

\* ===================================================== the parsers, alone
\* Product names and record names parse is called with; "None" is an
\* absent product (the product=None default of the parser modules).
ProductNames == {"", "ls8", "ls8/T1", "s1"}
RecordNames == {"001", "LC08/001", "T1/LC08/001", "ls8/001"}
OtherFields == {<<"B2", "B3">>, <<"B1", "B2", "B3">>}

\* The document built by odc_gee/parser.py with make_metadata_doc
\* ("parser") or by a parser module with MakeMetadataDoc ("ls8").
ParseDoc(parser, product, image) ==
    IF parser = "parser" THEN make_metadata_doc(image, product, Measurements)
    ELSE MakeMetadataDoc(image, product)

InitParse ==
    /\ pin \in [parser : {"parser", "ls8"},
                productA : ProductNames \cup {"None"},
                productB : ProductNames \cup {"None"},
                nameA : RecordNames, nameB : RecordNames,
                bandsA : OtherFields, bandsB : OtherFields]
    \* odc_gee/parser.py reads product.name: its product is never None.
    /\ pin.parser = "parser" => (pin.productA # "None" /\ pin.productB # "None")
    /\ pout = [done |-> FALSE]
    /\ IndexerIdle
    /\ catalog = <<>>
    /\ WalkIdle
    /\ CredIdle

\* Two parse calls, on record A under product A and on record B under
\* product B.
Parse ==
    /\ ~pout.done
    /\ pout' = [done |-> TRUE,
                docA |-> ParseDoc(pin.parser, pin.productA,
                                  [name |-> pin.nameA, bands |-> pin.bandsA]),
                docB |-> ParseDoc(pin.parser, pin.productB,
                                  [name |-> pin.nameB, bands |-> pin.bandsB])]
    /\ UNCHANGED <<pin, ixVars, walkVars, credVars>>

NextParse == Parse

SpecParse == InitParse /\ [][NextParse]_vars

\* C7: the id depends on the product name and the record name alone: the
\* same record name under the same product gives the same id whatever the
\* record's other fields are, and the same record name under two different
\* product names gives two different ids.
C7_IdentityStable ==
    (pout.done /\ pin.nameA = pin.nameB) =>
        /\ pin.productA = pin.productB => pout.docA.id = pout.docB.id
        /\ (pin.productA # pin.productB
              /\ pin.productA \in ProductNames /\ pin.productB \in ProductNames)
           => pout.docA.id # pout.docB.id

\* C7 witness: one record, with different other fields, parsed by a parser
\* module under two different product names, one of them a prefix of the
\* other.
C7_Witness ==
    /\ pout.done
    /\ pin.parser = "ls8"
    /\ pin.nameA = pin.nameB
    /\ pin.bandsA # pin.bandsB
    /\ pin.productA = "ls8" /\ pin.productB = "ls8/T1"
    /\ pout.docA.id # pout.docB.id

\* C21: in every document built, image.bands has exactly the band names of
\* the band table as keys, and each name holds the path
\* 'EEDAI:' + record name + ':' + the raw band id of that name, layer 1.
C21_DocBandInvariant ==
    pout.done =>
        \A d \in {[doc |-> pout.docA, name |-> pin.nameA],
                  [doc |-> pout.docB, name |-> pin.nameB]} :
            /\ DOMAIN d.doc.bands = Range(Measurements)
            /\ \A k \in DOMAIN Measurements :
                  d.doc.bands[Measurements[k]]
                      = [path |-> BandPath(d.name, Aliases0[k]), layer |-> 1]

\* C29: two distinct bindings of (product, record name), the product
\* absent or a name without '/', the record name possibly holding '/',
\* never give the same id: the hashed key string tells them apart.
C29_KeyInjective ==
    (/\ pout.done
     /\ pin.productA \in {"None", "ls8", "s1"}
     /\ pin.productB \in {"None", "ls8", "s1"}
     /\ <<pin.productA, pin.nameA>> # <<pin.productB, pin.nameB>>)
        => pout.docA.id # pout.docB.id

\* ==================================================== earthengine.Datacube
\* Constructor calls of one process, refreshes of the credential, and the
\* requests one load call may issue (the depth its recursion is followed to).
MaxCalls == 3
MaxRefresh == 4
MaxAttempts == 3

\* The credentials argument: a path that exists, or anything else.
CredArgs == {"file", "nofile"}
\* What another writer (the test suite writes 'foobar') puts in the slot.
ForeignValues == {"", "foobar"}
TokenString(n) == "token-" \o ToString(n)

\* How a first constructor call may end: it returns, ee.Authenticate or
\* ee.Initialize raises before the credential is touched, or
\* datacube.Datacube.__init__ raises after the finalizer is registered.
CtorOutcomes == {"ok", "authFails", "superFails"}

\* A faulty metaclass that builds a new object on every call.
InstanceIsNoneAlways(inst) == TRUE

\* if cls.__instance is None
InstanceIsNone(inst) == inst = 0

\* cleanup(key, request): os.environ.get(key) is falsy for a missing key
\* and for the empty string; only a truthy value is popped.
cleanup(env) == IF env # "absent" /\ env # "" THEN "absent" ELSE env

\* A faulty _refresh_credentials that does not test self.request.
RefreshPossibleAlways(req) == TRUE

\* _refresh_credentials: "if self.request" decides whether it refreshes.
RefreshPossible(req) == req

InitCred ==
    /\ CredIdle
    /\ IndexerIdle
    /\ catalog = <<>>
    /\ WalkIdle
    /\ ParseIdle

\* Datacube(*args, **kwargs) through Singleton.__call__: the stored
\* instance is returned, or an object is created and __init__ runs on it.
Construct ==
    /\ ctorCalls < MaxCalls
    /\ ctorCalls' = ctorCalls + 1
    /\ lastOp' = "construct"
    /\ IF ~InstanceIsNone(instance)
       THEN /\ returned' = returned \cup {instance}
            /\ UNCHANGED <<instance, mode, hasRequest, finalizer, environ, token,
                           expired, inits>>
       ELSE \E arg \in CredArgs, out \in CtorOutcomes :
              /\ inits' = inits + 1
              /\ arg = "nofile" /\ out # "authFails" => token < MaxRefresh
              /\ LET refreshes == arg = "nofile" /\ out # "authFails"
                     published == IF refreshes THEN TokenString(token + 1)
                                  ELSE environ
                 IN  /\ token' = IF refreshes THEN token + 1 ELSE token
                     /\ expired' = IF refreshes THEN FALSE ELSE expired
                     /\ IF out = "ok"
                        THEN /\ instance' = inits + 1
                             /\ returned' = returned \cup {inits + 1}
                             /\ mode' = IF arg = "file" THEN "service" ELSE "user"
                             /\ hasRequest' = (arg = "nofile")
                             /\ finalizer' = "alive"
                             /\ environ' = published
                        ELSE \* the call raises; the object is dropped and,
                             \* if its finalizer was registered, finalized
                             /\ environ' = IF out = "superFails"
                                           THEN cleanup(published) ELSE published
                             /\ UNCHANGED <<instance, returned, mode, hasRequest,
                                            finalizer>>
    /\ UNCHANGED <<lpc, attempts, lresult>>
    /\ UNCHANGED <<ixVars, walkVars, parseVars>>

\* Another writer sets EEDA_BEARER.
EnvWrite ==
    /\ \E v \in ForeignValues : environ # v /\ environ' = v
    /\ lastOp' = "write"
    /\ UNCHANGED <<instance, mode, hasRequest, finalizer, token, expired, inits,
                   returned, ctorCalls, lpc, attempts, lresult>>
    /\ UNCHANGED <<ixVars, walkVars, parseVars>>

\* remove(), or the finalization of the instance at exit: weakref.finalize
\* runs cleanup once, a later call does nothing.
Remove ==
    /\ instance # 0
    /\ lpc # "try"
    /\ IF finalizer = "alive"
       THEN environ' = cleanup(environ) /\ finalizer' = "dead"
       ELSE UNCHANGED <<environ, finalizer>>
    /\ lastOp' = "remove"
    /\ UNCHANGED <<instance, mode, hasRequest, token, expired, inits, returned,
                   ctorCalls, lpc, attempts, lresult>>
    /\ UNCHANGED <<ixVars, walkVars, parseVars>>

\* Time passes: the token of the user credential reaches its expiry.
Expire ==
    /\ mode = "user"
    /\ token > 0
    /\ ~expired
    /\ expired' = TRUE
    /\ lastOp' = "expire"
    /\ UNCHANGED <<instance, mode, hasRequest, finalizer, environ, token, inits,
                   returned, ctorCalls, lpc, attempts, lresult>>
    /\ UNCHANGED <<ixVars, walkVars, parseVars>>

\* What the request of a load may end with: success, a RasterioIOError
\* whose message holds "UNAUTHENTICATED", another RasterioIOError, another
\* exception.
LoadOutcomes == {"ok", "UNAUTHENTICATED", "RasterioIOError", "Exception"}

\* A caller calls load(...): the first request is issued.
LoadCall ==
    /\ instance # 0
    /\ lpc # "try"
    /\ lpc' = "try"
    /\ attempts' = 1
    /\ lresult' = "none"
    /\ lastOp' = "load"
    /\ UNCHANGED <<instance, mode, hasRequest, finalizer, environ, token, expired,
                   inits, returned, ctorCalls>>
    /\ UNCHANGED <<ixVars, walkVars, parseVars>>

\* The pending request ends.  On UNAUTHENTICATED, when _refresh_credentials
\* returns True, load calls itself again; otherwise the error is raised.
\* Another RasterioIOError falls out of its handler: load returns None.
LoadStep ==
    /\ lpc = "try"
    /\ lastOp' = "load"
    /\ \E o \in LoadOutcomes :
          CASE o = "ok" ->
                 /\ ~(mode = "user" /\ expired)
                 /\ lpc' = "returned" /\ lresult' = "datasets"
                 /\ UNCHANGED <<environ, token, expired, attempts>>
            [] o = "UNAUTHENTICATED" ->
                 IF RefreshPossible(hasRequest)
                 THEN /\ attempts < MaxAttempts
                      /\ token < MaxRefresh
                      /\ token' = token + 1
                      /\ environ' = TokenString(token + 1)
                      /\ expired' = FALSE
                      /\ attempts' = attempts + 1
                      /\ UNCHANGED <<lpc, lresult>>
                 ELSE /\ lpc' = "raised" /\ lresult' = o
                      /\ UNCHANGED <<environ, token, expired, attempts>>
            [] o = "RasterioIOError" ->
                 /\ lpc' = "returned" /\ lresult' = "None"
                 /\ UNCHANGED <<environ, token, expired, attempts>>
            [] o = "Exception" ->
                 /\ lpc' = "raised" /\ lresult' = o
                 /\ UNCHANGED <<environ, token, expired, attempts>>
    /\ UNCHANGED <<instance, mode, hasRequest, finalizer, inits, returned,
                   ctorCalls>>
    /\ UNCHANGED <<ixVars, walkVars, parseVars>>

NextCred == Construct \/ EnvWrite \/ Remove \/ Expire \/ LoadCall \/ LoadStep

SpecCred == InitCred /\ [][NextCred]_vars

\* ======================================== claims: earthengine.Datacube
\* C14: once remove() or the finalization of the instance has run, the
\* EEDA_BEARER key is absent from the environment, whatever the slot held.
C14_TeardownEmptiesSlot ==
    (lastOp = "remove" /\ finalizer = "dead") => environ = "absent"

\* C15, as stated: all constructor calls return one object and __init__
\* runs for the first call only.
C15_InitFirstCallOnly ==
    /\ Cardinality(returned) <= 1
    /\ inits <= 1

\* C15, amended: all constructor calls that return give the same object,
\* and __init__ has run for no call after the one that created it (the n-th
\* object created is the instance exactly when __init__ has run n times).
C15_SingletonOnceReturned ==
    /\ Cardinality(returned) <= 1
    /\ instance # 0 => (returned = {instance} /\ inits = instance)
    /\ instance = 0 => returned = {}

\* C15 witness: three calls, the first raised, the next two returned the
\* same object.
C15_Witness ==
    /\ ctorCalls = 3
    /\ inits = 2
    /\ instance = 2
    /\ returned = {2}
    /\ lastOp = "construct"

\* C16: one load call issues its request at most twice: once, and once
\* more after the refresh that follows an UNAUTHENTICATED error.
C16_RetryOnce ==
    attempts <= 2

\* C17: while an instance with user credentials is alive, the EEDA_BEARER
\* slot never holds a token that has expired.
C17_SlotNeverExpired ==
    (instance # 0 /\ mode = "user" /\ finalizer = "alive")
    => ~(expired /\ environ = TokenString(token))

\* C18: an instance built from a credentials file holds no request object,
\* and while it exists no step refreshes the credential, publishes a token
\* to EEDA_BEARER or issues a second request for one load call.
C18_ServiceModeNoRefresh ==
    [][(mode = "service" /\ mode' = "service")
       => /\ ~hasRequest /\ ~hasRequest'
          /\ token' = token
          /\ environ' # environ => environ' \in ForeignValues \cup {"absent"}
          /\ attempts' <= 1
          /\ (lpc = "try" /\ attempts' = attempts /\ lresult' = "UNAUTHENTICATED")
                => lpc' = "raised"]_vars

\* C18 witness: a load of a service-credential instance met UNAUTHENTICATED
\* and raised it after its single request.
C18_Witness ==
    /\ mode = "service"
    /\ ~hasRequest
    /\ lpc = "raised"
    /\ lresult = "UNAUTHENTICATED"
    /\ attempts = 1
    /\ token = 0

\* C26: load never fails silently: a call that has returned has returned
\* the loaded datasets, never None.
C26_LoadNeverSilent ==
    lpc = "returned" => lresult = "datasets"

\* C27: once the instance is removed and the slot is absent, no operation
\* on the instance (a load that meets UNAUTHENTICATED included) puts a
\* value in the slot again; only another writer may.
C27_RemovedStaysAbsent ==
    [][(instance # 0 /\ finalizer = "dead" /\ environ = "absent" /\ lastOp' # "write")
          => environ' = "absent"]_vars

\* ============================================ the parsers: scene extents
\* The number of rings of a record's geometry (geometry['coordinates']).
MaxRings == 2

\* Stands for a coordinate that is not finite (GEE writes Infinity); it
\* orders above every finite coordinate, as +inf does in numpy's min/max.
Infinity == 1000
IsFinite(x) == x # Infinity

\* Rings a record may carry, as sequences of <<lon, lat>> points: a finite
\* rectangle, the same with a non-finite first or last coordinate, and the
\* ring GEE sends for an unbounded image.
RingCases ==
    { << <<20, 10>>, <<30, 10>>, <<30, 40>>, <<20, 40>> >>,
      << <<Infinity, 10>>, <<30, 10>>, <<30, 40>>, <<20, 40>> >>,
      << <<20, 10>>, <<30, 10>>, <<30, 40>>, <<20, Infinity>> >>,
      << <<Infinity, Infinity>>, <<Infinity, Infinity>>,
         <<Infinity, Infinity>>, <<Infinity, Infinity>> >> }

Geometries == UNION { [1 .. n -> RingCases] : n \in 1 .. MaxRings }

\* The parsers with an extent of their own: odc_gee/parser.py and the
\* parser modules of the single-grid products.
GlobalGridParsers == {"srtm", "smap", "trmm", "worldpop"}
GeomParsers == {"parser"} \cup GlobalGridParsers

Corners(xmin, ymin, xmax, ymax) ==
    [ul |-> [lon |-> xmin, lat |-> ymax], ur |-> [lon |-> xmax, lat |-> ymax],
     ll |-> [lon |-> xmin, lat |-> ymin], lr |-> [lon |-> xmax, lat |-> ymin]]

\* The whole-globe corner set parse writes for a non-finite geometry.
Globe == Corners(-180, -90, 180, 90)

\* Whether every coordinate of every ring of the geometry is finite.
AllFinite(geometry) ==
    \A r \in DOMAIN geometry : \A i \in DOMAIN geometry[r] :
        IsFinite(geometry[r][i][1]) /\ IsFinite(geometry[r][i][2])

\* geometry_isfinite: np.isfinite(array).sum() == array.size over
\* geometry['coordinates'][0], the first ring only.
geometry_isfinite(geometry) ==
    LET array == geometry[1]
        finite == Cardinality({i \in DOMAIN array : IsFinite(array[i][1])})
                  + Cardinality({i \in DOMAIN array : IsFinite(array[i][2])})
    IN  finite = 2 * Len(array)

MinIn(S) == CHOOSE x \in S : \A y \in S : x <= y
MaxIn(S) == CHOOSE x \in S : \A y \in S : x >= y

\* The bounding box of a set of rings, as corners.
BoxOf(geometry, rings) ==
    LET xs == UNION {{geometry[r][i][1] : i \in DOMAIN geometry[r]} : r \in rings}
        ys == UNION {{geometry[r][i][2] : i \in DOMAIN geometry[r]} : r \in rings}
    IN  Corners(MinIn(xs), MinIn(ys), MaxIn(xs), MaxIn(ys))

\* What Geometry(geometry).boundingbox of the geometry library makes of a
\* geometry that passed the test: the box of the outer ring, the box of
\* all rings, or an exception for coordinates it cannot take.
BoxOutcomes == {"shell", "all", "raises"}

\* get_coords(ring, rot=False): min and max of each column of the ring.
get_coords(ring) == BoxOf(<<ring>>, {1})

\* The x/y form of a corner set (spatial=True, geo_ref_points).
Spatial(c) ==
    [k \in DOMAIN c |-> [x |-> c[k].lon, y |-> c[k].lat]]

\* coord and geo_ref_points as each parser builds them.
ParseExtent(parser, geometry, lib) ==
    CASE parser = "parser" ->
           IF geometry_isfinite(geometry)
           THEN IF lib = "raises" /\ ~AllFinite(geometry)
                THEN [done |-> TRUE, raised |-> "ValueError"]
                ELSE [done |-> TRUE, raised |-> "none",
                      coord |-> BoxOf(geometry,
                                      IF lib = "all" THEN DOMAIN geometry ELSE {1})]
           ELSE [done |-> TRUE, raised |-> "none", coord |-> Globe]
      [] parser \in {"srtm", "smap"} ->
           [done |-> TRUE, raised |-> "none",
            coord |-> Globe, geo_ref_points |-> Spatial(Globe)]
      [] parser = "trmm" ->
           [done |-> TRUE, raised |-> "none",
            coord |-> Corners(-180, -40, 180, 40),
            geo_ref_points |-> Spatial(Corners(-180, -40, 180, 40))]
      [] parser = "worldpop" ->
           [done |-> TRUE, raised |-> "none",
            coord |-> get_coords(geometry[1]),
            geo_ref_points |-> Spatial(get_coords(geometry[1]))]

InitGeom ==
    /\ pin \in [parser : GeomParsers, geometry : Geometries]
    /\ pout = [done |-> FALSE]
    /\ IndexerIdle
    /\ catalog = <<>>
    /\ WalkIdle
    /\ CredIdle

\* One parse call on a record with the geometry drawn.
ParseGeometry ==
    /\ ~pout.done
    /\ \E lib \in BoxOutcomes : pout' = ParseExtent(pin.parser, pin.geometry, lib)
    /\ UNCHANGED <<pin, ixVars, walkVars, credVars>>

NextGeom == ParseGeometry

SpecGeom == InitGeom /\ [][NextGeom]_vars

\* Whether some coordinate of the geometry, in any ring, is not finite.
HasNonFinite(geometry) == ~AllFinite(geometry)

\* C19: for a record whose geometry holds a non-finite coordinate in any
\* ring, parse does not raise and returns the whole-globe corner set.
C19_NonFiniteGivesGlobe ==
    (pout.done /\ pin.parser = "parser" /\ HasNonFinite(pin.geometry))
    => (pout.raised = "none" /\ pout.coord = Globe)

\* C20: every single-grid parser returns the whole-globe corner set as
\* coord and as geo_ref_points, whatever the record's geometry.
C20_GlobalGridIsGlobe ==
    (pout.done /\ pin.parser \in GlobalGridParsers)
    => /\ pout.raised = "none"
       /\ pout.coord = Globe
       /\ pout.geo_ref_points = Spatial(Globe)

\* ================================================ get_coords, on its own
\* Vertex coordinates run over 0 .. GridMax.
GridMax == 2

Points == (0 .. GridMax) \X (0 .. GridMax)
\* The four vertices of a ring, in the order the record lists them.
Rings == [1 .. 4 -> Points]
\* Other orders the same vertices may be listed in: as given, the first two
\* swapped, reversed, rotated by one.
PermCases == {<<1, 2, 3, 4>>, <<2, 1, 3, 4>>, <<4, 3, 2, 1>>, <<2, 3, 4, 1>>}
Permuted(ring, perm) == [i \in 1 .. 4 |-> ring[perm[i]]]
\* The closed ring of the GeoJSON: the first vertex is repeated at the end.
Closed(ring) == Append(ring, ring[1])

\* numpy argmin / argmax over one column: the first index of the extreme.
ArgMin(array, col) ==
    CHOOSE i \in DOMAIN array :
        /\ \A j \in DOMAIN array : array[i][col] <= array[j][col]
        /\ \A j \in DOMAIN array : j < i => array[j][col] > array[i][col]
ArgMax(array, col) ==
    CHOOSE i \in DOMAIN array :
        /\ \A j \in DOMAIN array : array[i][col] >= array[j][col]
        /\ \A j \in DOMAIN array : j < i => array[j][col] < array[i][col]

LonLat(pt) == [lon |-> pt[1], lat |-> pt[2]]

\* get_coords(geometry, rot=True): ul is the vertex of greatest y, ur of
\* greatest x, ll of least x, lr of least y.
get_coords_rot(array) ==
    [ul |-> LonLat(array[ArgMax(array, 2)]),
     ur |-> LonLat(array[ArgMax(array, 1)]),
     ll |-> LonLat(array[ArgMin(array, 1)]),
     lr |-> LonLat(array[ArgMin(array, 2)])]

CoordsOf(array) == [box |-> get_coords(array), rot |-> get_coords_rot(array)]

InitCoords ==
    /\ pin \in [ring : Rings, perm : PermCases]
    /\ pout = [done |-> FALSE]
    /\ IndexerIdle
    /\ catalog = <<>>
    /\ WalkIdle
    /\ CredIdle

\* get_coords on the ring as listed (a) and on the same vertices listed in
\* the other order (b), with rot=False and rot=True.
GetCoords ==
    /\ ~pout.done
    /\ pout' = [done |-> TRUE,
                a |-> CoordsOf(Closed(pin.ring)),
                b |-> CoordsOf(Closed(Permuted(pin.ring, pin.perm)))]
    /\ UNCHANGED <<pin, ixVars, walkVars, credVars>>

NextCoords == GetCoords

SpecCoords == InitCoords /\ [][NextCoords]_vars

\* The vertices of the ring, and the extremes of their coordinates.
Vertices == {pin.ring[i] : i \in 1 .. 4}
Xs == {v[1] : v \in Vertices}
Ys == {v[2] : v \in Vertices}

\* C22: with rot=False the result is the bounding box of the vertices; with
\* rot=True every corner is a vertex, ll of least x, ur of greatest x, ul of
\* greatest y, lr of least y; and neither result depends on the order the
\* vertices are listed in.
C22_ExtentsOrderFree ==
    pout.done =>
        /\ pout.a.box = Corners(MinIn(Xs), MinIn(Ys), MaxIn(Xs), MaxIn(Ys))
        /\ \A k \in {"ul", "ur", "ll", "lr"} :
              <<pout.a.rot[k].lon, pout.a.rot[k].lat>> \in Vertices
        /\ pout.a.rot.ll.lon = MinIn(Xs) /\ pout.a.rot.ur.lon = MaxIn(Xs)
        /\ pout.a.rot.ul.lat = MaxIn(Ys) /\ pout.a.rot.lr.lat = MinIn(Ys)
        /\ pout.a.box = pout.b.box
        /\ pout.a.rot = pout.b.rot

Cross(a, b, c) == (b[1] - a[1]) * (c[2] - a[2]) - (b[2] - a[2]) * (c[1] - a[1])
Turn(ring, i) ==
    Cross(ring[i], ring[(i % 4) + 1], ring[((i + 1) % 4) + 1])
\* The ring walks round a convex quadrilateral: it turns the same way at
\* each of its four vertices.
IsQuadrilateral(ring) ==
    \/ \A i \in 1 .. 4 : Turn(ring, i) > 0
    \/ \A i \in 1 .. 4 : Turn(ring, i) < 0

\* C30: for a ring round a quadrilateral, get_coords with rot=True returns
\* four pairwise distinct corners, ul and ll west of ur and lr.
C30_RotCornersDistinct ==
    (pout.done /\ IsQuadrilateral(pin.ring)) =>
        /\ Cardinality({pout.a.rot[k] : k \in {"ul", "ur", "ll", "lr"}}) = 4
        /\ pout.a.rot.ul.lon <= pout.a.rot.ur.lon
        /\ pout.a.rot.ll.lon <= pout.a.rot.lr.lon

\* ======================================================= index_with_progress
\* The longest list of years a call is given.
MaxYears == 2

Years == {2019, 2020}
YearLists == UNION {[1 .. n -> Years] : n \in 0 .. MaxYears}

\* pd.date_range(f'{y}-01-01', f'{y+1}-01-01', freq='1MS'): the thirteen
\* month starts from January of y to January of y + 1, as <<year, month>>.
date_range(y) == [i \in 1 .. 13 |-> IF i <= 12 THEN <<y, i>> ELSE <<y + 1, 1>>]

\* f'{date.isoformat()}Z' of a month start.
IsoZ(d) ==
    (ToString(d[1]) \o "-")
        \o ((IF d[2] < 10 THEN "0" ELSE "") \o ToString(d[2]))
        \o "-01T00:00:00Z"

\* The positional argument the loop calls .update on (args[2] in
\* odc_gee/indexing.py, args[1] in the two utils modules), by the field of
\* the indexer's own argument list found at that position: indexer takes
\* (asset, product, filters), ee_indexer (metadata, filters), gee_indexer
\* (asset, product, parser, filters).
UpdatedArg(v) == IF v = "gee_indexer" THEN "product" ELSE "filters"

\* How one call of the indexer on a window may end: every page answered; a
\* listing request that carried a token raised and the error left the
\* indexer; or it raised a RuntimeError that ee_indexer caught, so that the
\* call returns with the token left in the filter map.
WalkOutcomes == {"ok", "raises", "swallowed"}

\* image_sum as the indexer returns it, for the image_sum it was given and
\* the n images of the pages it walked.
IndexerSum(given, n) == given + n

\* pin holds the arguments of the call, pout the locals of
\* index_with_progress: year and idx are the positions of the two loops,
\* walked lists the indexer calls made (the response and the filter map
\* each was given), found adds up the images of the pages walked.
InitProgress ==
    /\ pin \in [variant : Variants, years : YearLists]
    /\ pout = [pc |-> "loop", year |-> 1, idx |-> 1, resp |-> "unbound",
               sum |-> 0, filters |-> [k \in {"startTime"} |-> "2020-01-01T00:00:00Z"],
               walked |-> <<>>, found |-> 0, raised |-> "none"]
    /\ IndexerIdle
    /\ catalog = <<>>
    /\ WalkIdle
    /\ CredIdle

\* One pass of the inner loop body: resp = None, the update of the window
\* bounds, and the indexer call.
WalkWindow ==
    /\ pout.pc = "loop"
    /\ pout.year <= Len(pin.years)
    /\ LET _r      == date_range(pin.years[pout.year])
           window  == DictUpdate(DictUpdate(pout.filters, "startTime", IsoZ(_r[pout.idx])),
                                 "endTime", IsoZ(_r[pout.idx + 1]))
           stepped == [pout EXCEPT !.year = IF pout.idx = 12 THEN @ + 1 ELSE @,
                                   !.idx = IF pout.idx = 12 THEN 1 ELSE @ + 1,
                                   !.walked = Append(@, [response |-> "None",
                                                         filters |-> window])]
       IN  IF UpdatedArg(pin.variant) # "filters"
           THEN pout' = [pout EXCEPT !.pc = "raised", !.raised = "AttributeError"]
           ELSE \E o \in WalkOutcomes, n \in 0 .. MaxImages :
                   /\ o = "swallowed" => pin.variant # "indexer"
                   /\ pout' =
                        IF o = "ok"
                        THEN [stepped EXCEPT
                                !.resp = "response",
                                !.filters = window,
                                !.found = @ + n,
                                !.sum = IF pin.variant = "indexer"
                                        THEN IndexerSum(pout.sum, n)
                                        ELSE pout.sum + IndexerSum(0, n)]
                        ELSE IF o = "swallowed"
                        THEN [stepped EXCEPT
                                !.resp = "response",
                                !.filters = DictUpdate(window, "pageToken", 2),
                                !.found = @ + n,
                                !.sum = pout.sum + IndexerSum(0, n)]
                        ELSE [stepped EXCEPT
                                !.pc = "raised",
                                !.raised = "ConnectionError",
                                !.found = @ + n,
                                !.filters = DictUpdate(window, "pageToken", 2)]
    /\ UNCHANGED <<pin, ixVars, walkVars, credVars>>

\* The loops are over: return resp, _sum.  With no year listed resp was
\* never assigned.
ReturnProgress ==
    /\ pout.pc = "loop"
    /\ pout.year > Len(pin.years)
    /\ pout' = IF pout.resp = "unbound"
               THEN [pout EXCEPT !.pc = "raised", !.raised = "UnboundLocalError"]
               ELSE [pout EXCEPT !.pc = "returned"]
    /\ UNCHANGED <<pin, ixVars, walkVars, credVars>>

NextProgress == WalkWindow \/ ReturnProgress

SpecProgress == InitProgress /\ [][NextProgress]_vars

\* The k-th month window of the years listed, as the filter map of its walk.
WindowFilters(k) ==
    LET y == pin.years[((k - 1) \div 12) + 1]
        m == ((k - 1) % 12) + 1
    IN  [startTime |-> IsoZ(<<y, m>>),
         endTime   |-> IsoZ(IF m = 12 THEN <<y + 1, 1>> ELSE <<y, m + 1>>)]

\* C24: for every list of years the call returns unless a walk raised, and
\* when it returns it has walked each month window of each listed year once
\* and in order, each walk given response None and a filter map holding
\* that month's bounds, and the sum returned is the number of images found
\* over all the windows.
C24_EveryWindowOnce ==
    /\ pout.pc = "raised" => pout.raised \in TransportErrors
    /\ pout.pc = "returned" =>
          /\ pout.walked = [k \in 1 .. 12 * Len(pin.years) |->
                               [response |-> "None", filters |-> WindowFilters(k)]]
          /\ pout.sum = pout.found

====
